---- MODULE Spec2Model ----
(***************************************************************************)
(* gron: a minute-resolution cron.  One scheduling thread (main) loops     *)
(* over the job list once per minute; every due job is started on its own  *)
(* goroutine (CronJob.Run / CronJob.innerRun).  A job with `lock` keeps a  *)
(* mutex-guarded flag x that suppresses overlapping runs; a job with       *)
(* `timeout` runs its command under a context deadline.                    *)
(*                                                                         *)
(* Time is wall-clock seconds since an epoch that is 00:00:00 on a Sunday, *)
(* the first day of a month.  An optional value (a Go pointer that may be  *)
(* nil) is a sequence of length 0 or 1.                                    *)
(***************************************************************************)
EXTENDS Integers, Sequences, FiniteSets, TLC

VARIABLES
    jobs,     \* the job list main builds from the configuration files
    now,      \* the wall clock, in seconds
    alive,    \* FALSE once the process has exited (panic, log.Fatalw)
    pc,       \* where the scheduling thread is
    idx,      \* the job the scheduling thread is at (range index, from 1)
    due,      \* the result of the last IsItTime call
    wakeAt,   \* the instant time.Sleep returns at
    lagged,   \* the clock has already ticked during this pass
    x,        \* x[j]: CronJob.x, the running flag
    m,        \* m[j]: who holds CronJob.m ("free", "main", "go")
    execs,    \* the goroutines started by Run that have not finished
    starts,   \* starts[j]: how many goroutines Run has started for job j
    lastEnd   \* how the last finished innerRun ended, and what it reported

vars == <<jobs, now, alive, pc, idx, due, wakeAt, lagged, x, m, execs, starts, lastEnd>>

-----------------------------------------------------------------------------
(* Bounds of the model *)

\* Jobs in the job list of the scheduling specification.
NJobs == 2

\* Seconds of wall-clock time the scheduling specification covers.
Horizon == 120

\* The timeout, in seconds, of a job that has one.
TimeoutSecs == 60

\* How long a command that exits on its own runs, in seconds.
CmdSecs == 90

\* Start instants, in seconds from 11:59:00, the sleep specification covers.
WaitRange == 130

\* Days the time-matcher inputs range over.
MatchDays == 9

-----------------------------------------------------------------------------
(* Calendar: the components time.Time reports *)

SecondsPerMinute == 60
MinutesPerHour == 60
HoursPerDay == 24
DaysPerWeek == 7
SecondsPerHour == SecondsPerMinute * MinutesPerHour
SecondsPerDay == SecondsPerHour * HoursPerDay

MinuteOf(t) == (t \div SecondsPerMinute) % MinutesPerHour
HourOf(t) == (t \div SecondsPerHour) % HoursPerDay
DayOf(t) == 1 + (t \div SecondsPerDay)
WeekdayOf(t) == (t \div SecondsPerDay) % DaysPerWeek

\* 12:00:00 on the first day.
Noon == 12 * SecondsPerHour

\* The readme's example: an hourly task that runs for 90 minutes.
HourlyRunMinutes == 90

Nil == <<>>
Some(v) == <<v>>

Min(S) == CHOOSE a \in S : \A b \in S : a <= b

-----------------------------------------------------------------------------
(* CronJob *)

\* A job record as yaml.Unmarshal leaves it: absent keys are nil / false / "".
CronJob(cmd, lock, timeout, minute, hour, day, weekday) ==
    [Command |-> cmd, Lock |-> lock, Timeout |-> timeout,
     Minute |-> minute, Hour |-> hour, Day |-> day, Weekday |-> weekday]

\* Mutant of IsItTime: the weekday constraint is not looked at.
IsItTimeNoWeekday(j, t) ==
    IF j.Minute # Nil /\ j.Minute[1] # MinuteOf(t) THEN FALSE
    ELSE IF j.Hour # Nil /\ j.Hour[1] # HourOf(t) THEN FALSE
    ELSE IF j.Day # Nil /\ j.Day[1] # DayOf(t) THEN FALSE
    ELSE TRUE

\* Mutant of IsItTime: weekday 7 is taken as another name of Sunday.
IsItTimeSundayAlias(j, t) ==
    IF j.Minute # Nil /\ j.Minute[1] # MinuteOf(t) THEN FALSE
    ELSE IF j.Hour # Nil /\ j.Hour[1] # HourOf(t) THEN FALSE
    ELSE IF j.Day # Nil /\ j.Day[1] # DayOf(t) THEN FALSE
    ELSE IF j.Weekday # Nil /\ (j.Weekday[1] % DaysPerWeek) # WeekdayOf(t) THEN FALSE
    ELSE TRUE

\* CronJob.IsItTime, at time.Now() = t.
IsItTime(j, t) ==
    IF j.Minute # Nil /\ j.Minute[1] # MinuteOf(t) THEN FALSE
    ELSE IF j.Hour # Nil /\ j.Hour[1] # HourOf(t) THEN FALSE
    ELSE IF j.Day # Nil /\ j.Day[1] # DayOf(t) THEN FALSE
    ELSE IF j.Weekday # Nil /\ j.Weekday[1] # WeekdayOf(t) THEN FALSE
    ELSE TRUE

\* Mutant of FixPanics: no validation.
FixAccepts(j) == FALSE

\* CronJob.Fix panics on an empty command.
FixPanics(j) == j.Command = ""

\* Mutant of UsesLock: every job is locked.
AlwaysLock(j) == TRUE

\* Mutant of UsesLock: no job is locked.
NeverLock(j) == FALSE

\* Run's first test: `if !j.Lock` starts the goroutine with no locking.
UsesLock(j) == j.Lock

\* Mutant of AlreadyRunning: the flag is not looked at.
NeverRunning(j) == FALSE

\* Run's second test, under the mutex: `if j.x`.
AlreadyRunning(j) == x[j]

\* Mutant of Awaited: innerRun is called without `go`, so Run returns only
\* when the command has ended.
AwaitedSync == {e \in execs : e.pc \in {"start", "output"}}

\* The goroutines the scheduling thread waits for before it goes on: none,
\* Run starts them with `go` and returns.
Awaited == {}

\* Mutant of Truncate: rounds to the nearest multiple instead of down.
TruncateRound(t, d) == IF 2 * (t % d) >= d THEN t - (t % d) + d ELSE t - (t % d)

\* time.Time.Truncate(d): t rounded down to a multiple of d.
Truncate(t, d) == t - (t % d)

\* Mutant of NextMinute: a fixed one-minute sleep.
NextMinuteFixed(t) == t + SecondsPerMinute

\* `then` of WaitUntilNextMinute: now.Add(time.Minute).Truncate(time.Minute).
NextMinute(t) == Truncate(t + SecondsPerMinute, SecondsPerMinute)

\* Mutant of Deadline: the command is started without a context.
NoDeadline(e) == Nil

\* The deadline of the context innerRun creates: none without a timeout.
Deadline(e) ==
    IF jobs[e.job].Timeout = Nil THEN Nil
    ELSE Some(e.startedAt + jobs[e.job].Timeout[1])

\* A goroutine started by Run at instant t for job j.
NewExec(j, t) == [job |-> j, startedAt |-> t, pc |-> "start", endAt |-> Nil]

ExecsOf(j) == {e \in execs : e.job = j}

\* A goroutine has a step to take at this very instant.
Urgent(e) ==
    \/ e.pc = "start"
    \/ e.pc = "output" /\ (e.endAt = Some(now) \/ Deadline(e) = Some(now))
    \/ e.pc = "defer" /\ m[e.job] = "free"
    \/ e.pc = "reset"

\* The instants after now at which something is due to happen.
EventTimes ==
    {wakeAt}
    \cup {e.endAt[1] : e \in {f \in execs : f.pc = "output" /\ f.endAt # Nil}}
    \cup {Deadline(e)[1] : e \in {f \in execs : f.pc = "output" /\ Deadline(f) # Nil}}

-----------------------------------------------------------------------------
(* Initial states *)

\* The process right after the configuration files are loaded, at instant t.
InitWith(list, t) ==
    /\ jobs = list
    /\ now = t
    /\ alive = TRUE
    /\ pc = "fix"
    /\ idx = 1
    /\ due = FALSE
    /\ wakeAt = t
    /\ lagged = FALSE
    /\ x = [j \in 1..Len(list) |-> FALSE]
    /\ m = [j \in 1..Len(list) |-> "free"]
    /\ execs = {}
    /\ starts = [j \in 1..Len(list) |-> 0]
    /\ lastEnd = Nil

-----------------------------------------------------------------------------
(* The scheduling thread: main *)

\* Mutant of Fix: main sleeps to the next minute before its first pass.
FixThenWait ==
    /\ alive /\ pc = "fix"
    /\ IF idx > Len(jobs)
       THEN /\ pc' = "wait" /\ idx' = 1 /\ alive' = alive
       ELSE IF FixPanics(jobs[idx])
       THEN /\ pc' = "panic" /\ alive' = FALSE /\ idx' = idx
       ELSE /\ pc' = "fix" /\ idx' = idx + 1 /\ alive' = alive
    /\ UNCHANGED <<jobs, now, due, wakeAt, lagged, x, m, execs, starts, lastEnd>>

\* main's validation loop: `for _, j := range jobs { j.Fix() }`.
Fix ==
    /\ alive /\ pc = "fix"
    /\ IF idx > Len(jobs)
       THEN /\ pc' = "eval" /\ idx' = 1 /\ alive' = alive
       ELSE IF FixPanics(jobs[idx])
       THEN /\ pc' = "panic" /\ alive' = FALSE /\ idx' = idx
       ELSE /\ pc' = "fix" /\ idx' = idx + 1 /\ alive' = alive
    /\ UNCHANGED <<jobs, now, due, wakeAt, lagged, x, m, execs, starts, lastEnd>>

\* Mutant of LoopIsItTime: a job that is not due ends the pass (`break`).
LoopIsItTimeBreak ==
    /\ alive /\ pc = "eval"
    /\ Awaited = {}
    /\ IF idx > Len(jobs)
       THEN /\ pc' = "wait" /\ UNCHANGED <<idx, due>>
       ELSE /\ due' = IsItTime(jobs[idx], now)
            /\ IF due' THEN pc' = "run" /\ idx' = idx
                       ELSE pc' = "wait" /\ idx' = idx
    /\ UNCHANGED <<jobs, now, alive, wakeAt, lagged, x, m, execs, starts, lastEnd>>

\* One round of `for _, j := range jobs { if j.IsItTime() ...`: the call of
\* IsItTime, which reads the clock itself.
LoopIsItTime ==
    /\ alive /\ pc = "eval"
    /\ Awaited = {}
    /\ IF idx > Len(jobs)
       THEN /\ pc' = "wait" /\ UNCHANGED <<idx, due>>
       ELSE /\ due' = IsItTime(jobs[idx], now)
            /\ IF due' THEN pc' = "run" /\ idx' = idx
                       ELSE pc' = "eval" /\ idx' = idx + 1
    /\ UNCHANGED <<jobs, now, alive, wakeAt, lagged, x, m, execs, starts, lastEnd>>

\* Mutant of Run: the flag is tested and set without taking the mutex.
RunNoMutex ==
    /\ alive /\ pc = "run"
    /\ IF UsesLock(jobs[idx])
       THEN /\ pc' = "crit"
            /\ UNCHANGED <<idx, m, execs, starts>>
       ELSE /\ execs' = execs \cup {NewExec(idx, now)}
            /\ starts' = [starts EXCEPT ![idx] = @ + 1]
            /\ pc' = "eval" /\ idx' = idx + 1
            /\ m' = m
    /\ UNCHANGED <<jobs, now, alive, due, wakeAt, lagged, x, lastEnd>>

\* CronJob.Run up to its first blocking point: without lock, start the
\* goroutine and return; with lock, acquire the mutex.
Run ==
    /\ alive /\ pc = "run"
    /\ IF UsesLock(jobs[idx])
       THEN /\ m[idx] = "free"
            /\ m' = [m EXCEPT ![idx] = "main"]
            /\ pc' = "crit"
            /\ UNCHANGED <<idx, execs, starts>>
       ELSE /\ execs' = execs \cup {NewExec(idx, now)}
            /\ starts' = [starts EXCEPT ![idx] = @ + 1]
            /\ pc' = "eval" /\ idx' = idx + 1
            /\ m' = m
    /\ UNCHANGED <<jobs, now, alive, due, wakeAt, lagged, x, lastEnd>>

\* CronJob.Run holding the mutex: skip if the flag is set, else set it and
\* start the goroutine.
RunCritical ==
    /\ alive /\ pc = "crit"
    /\ IF AlreadyRunning(idx)
       THEN UNCHANGED <<x, execs, starts>>
       ELSE /\ x' = [x EXCEPT ![idx] = TRUE]
            /\ execs' = execs \cup {NewExec(idx, now)}
            /\ starts' = [starts EXCEPT ![idx] = @ + 1]
    /\ pc' = "unlock"
    /\ UNCHANGED <<jobs, now, alive, idx, due, wakeAt, lagged, m, lastEnd>>

\* CronJob.Run's deferred j.m.Unlock(), and the return to main's loop.
RunUnlock ==
    /\ alive /\ pc = "unlock"
    /\ Awaited = {}
    /\ m' = [m EXCEPT ![idx] = "free"]
    /\ pc' = "eval" /\ idx' = idx + 1
    /\ UNCHANGED <<jobs, now, alive, due, wakeAt, lagged, x, execs, starts, lastEnd>>

\* WaitUntilNextMinute up to time.Sleep: the sleep ends then.Sub(now) later.
WaitUntilNextMinute ==
    /\ alive /\ pc = "wait"
    /\ wakeAt' = now + (NextMinute(now) - now)
    /\ pc' = "sleep"
    /\ UNCHANGED <<jobs, now, alive, idx, due, lagged, x, m, execs, starts, lastEnd>>

\* time.Sleep returns and main's `for` starts the next pass.
Wake ==
    /\ alive /\ pc = "sleep"
    /\ now >= wakeAt
    /\ pc' = "eval" /\ idx' = 1 /\ lagged' = FALSE
    /\ UNCHANGED <<jobs, now, alive, due, wakeAt, x, m, execs, starts, lastEnd>>

MainStep == Fix \/ LoopIsItTime \/ Run \/ RunCritical \/ RunUnlock \/ WaitUntilNextMinute

-----------------------------------------------------------------------------
(* Time *)

\* While main sleeps, the clock runs to the next instant at which something
\* happens; a goroutine that has a step to take now takes it first.
Advance(limit) ==
    /\ alive /\ pc = "sleep" /\ now < wakeAt
    /\ \A e \in execs : ~Urgent(e)
    /\ LET t == Min({u \in EventTimes : u > now})
       IN /\ t <= limit
          /\ now' = t
    /\ UNCHANGED <<jobs, alive, pc, idx, due, wakeAt, lagged, x, m, execs, starts, lastEnd>>

\* A pass takes less than a second, so the clock ticks over at most once
\* during it, and not while main holds a mutex.
Lag(limit) ==
    /\ alive /\ pc \in {"eval", "run", "wait"}
    /\ ~lagged
    /\ \A e \in execs : ~Urgent(e)
    /\ now + 1 <= limit
    /\ now' = now + 1
    /\ lagged' = TRUE
    /\ UNCHANGED <<jobs, alive, pc, idx, due, wakeAt, x, m, execs, starts, lastEnd>>

-----------------------------------------------------------------------------
(* A goroutine: innerRun and the deferred reset *)

\* innerRun when cmd.StdinPipe() fails: log.Fatalw exits the process on the
\* spot, and no deferred function runs.
StdinPipeFatal(e) ==
    /\ alive /\ e \in execs /\ e.pc = "start"
    /\ execs' = (execs \ {e}) \cup {[e EXCEPT !.pc = "fatal"]}
    /\ alive' = FALSE
    /\ UNCHANGED <<jobs, now, pc, idx, due, wakeAt, lagged, x, m, starts, lastEnd>>

\* innerRun up to cmd.CombinedOutput(): the command is launched; left alone
\* it exits after dur seconds (Nil: never; 0 also stands for a launch error).
innerRun(e, dur) ==
    /\ alive /\ e \in execs /\ e.pc = "start"
    /\ execs' = (execs \ {e}) \cup
           {[e EXCEPT !.pc = "output",
                      !.endAt = IF dur = Nil THEN Nil ELSE Some(now + dur[1])]}
    /\ UNCHANGED <<jobs, now, alive, pc, idx, due, wakeAt, lagged, x, m, starts, lastEnd>>

\* Mutant of Captured: every execution is reported, failed or not.
CapturedAlways(e, err) == <<e.job>>

\* innerRun after cmd.CombinedOutput(): the packets handed to sentry.Capture,
\* one `if err != nil`, else none.
Captured(e, err) == IF err THEN <<e.job>> ELSE <<>>

\* Mutant of Returned: a failed execution is started again at once.
ReturnedRetry(e, cause, err) ==
    /\ lastEnd' = Some([job |-> e.job, cause |-> cause, err |-> err,
                        ran |-> now - e.startedAt,
                        reports |-> Captured(e, err)])
    /\ execs' = (IF UsesLock(jobs[e.job])
                 THEN (execs \ {e}) \cup {[e EXCEPT !.pc = "defer"]}
                 ELSE execs \ {e})
                \cup (IF err THEN {NewExec(e.job, now)} ELSE {})

\* innerRun returns: with lock the deferred function is next, without it the
\* goroutine is over.
Returned(e, cause, err) ==
    /\ lastEnd' = Some([job |-> e.job, cause |-> cause, err |-> err,
                        ran |-> now - e.startedAt,
                        reports |-> Captured(e, err)])
    /\ execs' = IF UsesLock(jobs[e.job])
                THEN (execs \ {e}) \cup {[e EXCEPT !.pc = "defer"]}
                ELSE execs \ {e}

\* cmd.CombinedOutput() returns because the command exited (err: a non-zero
\* exit status or a launch error).
CombinedOutput(e, err) ==
    /\ alive /\ e \in execs /\ e.pc = "output"
    /\ e.endAt = Some(now)
    /\ Returned(e, "exit", err)
    /\ UNCHANGED <<jobs, now, alive, pc, idx, due, wakeAt, lagged, x, m, starts>>

\* The context's deadline passes: the command is killed and
\* cmd.CombinedOutput() returns an error.
ContextKill(e) ==
    /\ alive /\ e \in execs /\ e.pc = "output"
    /\ Deadline(e) = Some(now)
    /\ Returned(e, "timeout", TRUE)
    /\ UNCHANGED <<jobs, now, alive, pc, idx, due, wakeAt, lagged, x, m, starts>>

\* The deferred function of Run's goroutine: j.m.Lock().
DeferLock(e) ==
    /\ alive /\ e \in execs /\ e.pc = "defer"
    /\ m[e.job] = "free"
    /\ m' = [m EXCEPT ![e.job] = "go"]
    /\ execs' = (execs \ {e}) \cup {[e EXCEPT !.pc = "reset"]}
    /\ UNCHANGED <<jobs, now, alive, pc, idx, due, wakeAt, lagged, x, starts, lastEnd>>

\* Mutant of DeferReset: the deferred function unlocks without resetting x.
DeferNoReset(e) ==
    /\ alive /\ e \in execs /\ e.pc = "reset"
    /\ m' = [m EXCEPT ![e.job] = "free"]
    /\ execs' = execs \ {e}
    /\ UNCHANGED <<jobs, now, alive, pc, idx, due, wakeAt, lagged, x, starts, lastEnd>>

\* Mutant of DeferReset: a tick skipped meanwhile is made up for, the
\* goroutine starts the next execution before it goes.
DeferRequeue(e) ==
    /\ alive /\ e \in execs /\ e.pc = "reset"
    /\ m' = [m EXCEPT ![e.job] = "free"]
    /\ execs' = (execs \ {e}) \cup {NewExec(e.job, now)}
    /\ UNCHANGED <<jobs, now, alive, pc, idx, due, wakeAt, lagged, x, starts, lastEnd>>

\* The deferred function of Run's goroutine: j.x = false, j.m.Unlock().
DeferReset(e) ==
    /\ alive /\ e \in execs /\ e.pc = "reset"
    /\ x' = [x EXCEPT ![e.job] = FALSE]
    /\ m' = [m EXCEPT ![e.job] = "free"]
    /\ execs' = execs \ {e}
    /\ UNCHANGED <<jobs, now, alive, pc, idx, due, wakeAt, lagged, starts, lastEnd>>

-----------------------------------------------------------------------------
(* The scheduling specification *)

\* What a command may do, left alone: exit at once, exit later, never exit.
Durations == {Some(0), Some(CmdSecs), Nil}

\* The job records of the scheduling specification: a job with no command,
\* a job due only at minute 1, and a job due every minute with every
\* combination of lock and timeout.
JobKinds ==
    {CronJob("", FALSE, Nil, Nil, Nil, Nil, Nil),
     CronJob("cmd", FALSE, Nil, Some(1), Nil, Nil, Nil)}
    \cup {CronJob("cmd", l, t, Nil, Nil, Nil, Nil) :
            l \in BOOLEAN, t \in {Nil, Some(TimeoutSecs)}}

JobLists == [1..NJobs -> JobKinds]

\* The process starts on a minute boundary or one second before one.
StartTimes == {Noon, Noon + SecondsPerMinute - 1}

LastInstant == Noon + Horizon

Init == \E list \in JobLists, t \in StartTimes : InitWith(list, t)

Next ==
    \/ Fix
    \/ LoopIsItTime
    \/ Run
    \/ RunCritical
    \/ RunUnlock
    \/ WaitUntilNextMinute
    \/ Wake
    \/ Advance(LastInstant)
    \/ Lag(LastInstant)
    \/ \E e \in execs : StdinPipeFatal(e)
    \/ \E e \in execs, d \in Durations : innerRun(e, d)
    \/ \E e \in execs, err \in BOOLEAN : CombinedOutput(e, err)
    \/ \E e \in execs : ContextKill(e)
    \/ \E e \in execs : DeferLock(e)
    \/ \E e \in execs : DeferReset(e)

Spec == Init /\ [][Next]_vars

-----------------------------------------------------------------------------
(* Properties of the scheduling specification *)

JobIds == 1..Len(jobs)

InFlight(j) == Cardinality(ExecsOf(j))

\* C1: a job with lock enabled has at most one goroutine that Run has
\* started and that has not yet reset the flag, in every reachable state.
C1_AtMostOneInFlight ==
    \A j \in JobIds : jobs[j].Lock => InFlight(j) <= 1

\* C1 witness: Run has just skipped a lock-enabled job whose execution from
\* an earlier tick is still in flight.
C1_Witness ==
    /\ pc = "unlock" /\ jobs[idx].Lock
    /\ \E e \in ExecsOf(idx) : e.startedAt < now /\ e.pc = "output"

\* C2, as claimed: the flag of a lock-enabled job is reset on every way the
\* execution that set it ends, so while the flag is set that execution has
\* not ended.  The StdinPipe failure path ends it by log.Fatalw and never
\* resets the flag.
C2_ResetOnEveryExit ==
    \A j \in JobIds :
        (jobs[j].Lock /\ x[j]) => \E e \in ExecsOf(j) : e.pc # "fatal"

\* C3: for a job without lock, Run at a due tick always starts one more
\* execution, however many are in flight.
C3_UnlockedAlwaysStarts ==
    [][(pc = "run" /\ ~jobs[idx].Lock /\ pc' # pc)
         => /\ NewExec(idx, now) \notin execs
            /\ execs' = execs \cup {NewExec(idx, now)}
            /\ starts'[idx] = starts[idx] + 1]_vars

\* C3 witness: three executions of one lock-disabled job are in flight, each
\* started by a different tick.
C3_Witness ==
    \E j \in JobIds : ~jobs[j].Lock /\ InFlight(j) >= 3

\* C5: the scheduling thread never waits for a command: whenever it is in a
\* pass it has a step to take, except that Run may wait for the mutex, which
\* a goroutine holds only in its deferred reset, never while its command runs.
C5_MainNeverWaits ==
    /\ (alive /\ pc \in {"eval", "run", "crit", "unlock", "wait"}
          /\ ~(pc = "run" /\ jobs[idx].Lock /\ m[idx] = "go"))
       => ENABLED MainStep
    /\ \A j \in JobIds : m[j] = "go" => \E e \in ExecsOf(j) : e.pc = "reset"

\* C5 witness: a command that never exits was started two ticks ago, and an
\* execution of a sibling job has been started since.
C5_Witness ==
    \E e \in execs, f \in execs :
        /\ e.pc = "output" /\ e.endAt = Nil /\ Deadline(e) = Nil
        /\ f.job # e.job
        /\ f.startedAt >= e.startedAt + 2 * SecondsPerMinute

C7_StartupValidation ==
    /\ (\E j \in JobIds : jobs[j].Command = "")
          => /\ pc \in {"fix", "panic"}
             /\ execs = {}
             /\ \A j \in JobIds : starts[j] = 0
    /\ pc \notin {"fix", "panic"} => \A j \in JobIds : jobs[j].Command # ""
    /\ pc = "panic" => ~alive

\* C7 witness: validation has aborted the process on the second job, after
\* accepting a valid first job.
C7_Witness ==
    /\ pc = "panic" /\ idx = 2
    /\ jobs[1].Command # "" /\ jobs[2].Command = ""

\* C10, the flag: with lock and a timeout of T seconds, the flag is set only
\* while the execution that set it is within its deadline.
C10_FlagWithinDeadline ==
    \A j \in JobIds :
        (jobs[j].Lock /\ jobs[j].Timeout # Nil /\ x[j])
          => \E e \in ExecsOf(j) : now <= e.startedAt + jobs[j].Timeout[1]

\* C10, the tick: Run of such a job at a tick later than the deadline of
\* every earlier execution starts a new execution.
C10_StartsAfterDeadline ==
    (/\ pc = "crit" /\ pc' # pc
     /\ jobs[idx].Lock /\ jobs[idx].Timeout # Nil
     /\ \A e \in ExecsOf(idx) : now > e.startedAt + jobs[idx].Timeout[1])
      => /\ NewExec(idx, now) \in execs'
         /\ starts'[idx] = starts[idx] + 1

-----------------------------------------------------------------------------
(* The time-matcher specification: one job with any time fields, started at *)
(* any of a set of instants, up to its first evaluation.                    *)

MatchJobs ==
    {CronJob("cmd", FALSE, Nil, mi, h, d, wd) :
        mi \in {Nil, Some(0), Some(59)},
        h \in {Nil, Some(0), Some(23)},
        d \in {Nil, Some(1), Some(8)},
        wd \in {Nil} \cup {Some(w) : w \in 0..DaysPerWeek}}

MatchTimes ==
    {d * SecondsPerDay + h * SecondsPerHour + mi * SecondsPerMinute :
        d \in 0..(MatchDays - 1), h \in {0, 1, 23}, mi \in {0, 1, 59}}

MatchInit == \E j \in MatchJobs, t \in MatchTimes : InitWith(<<j>>, t)

MatchNext == Fix \/ LoopIsItTime

MatchSpec == MatchInit /\ [][MatchNext]_vars

\* The first job has been evaluated in this pass.
Evaluated == pc = "run" \/ (pc \in {"eval", "wait"} /\ idx = 2)

Present(f) == f # Nil

\* C4: IsItTime is true exactly when every present field of the job equals
\* the corresponding component of the current time, and main calls Run
\* exactly then.
C4_DueIffPresentFieldsMatch ==
    Evaluated =>
      /\ due = (/\ Present(jobs[1].Minute) => jobs[1].Minute[1] = MinuteOf(now)
                /\ Present(jobs[1].Hour) => jobs[1].Hour[1] = HourOf(now)
                /\ Present(jobs[1].Day) => jobs[1].Day[1] = DayOf(now)
                /\ Present(jobs[1].Weekday) => jobs[1].Weekday[1] = WeekdayOf(now))
      /\ (pc = "run") = due

\* C4 witness: a job with all four fields present is found not due because
\* its weekday alone differs from the timestamp's.
C4_Witness ==
    /\ Evaluated /\ ~due
    /\ jobs[1].Minute = Some(MinuteOf(now))
    /\ jobs[1].Hour = Some(HourOf(now))
    /\ jobs[1].Day = Some(DayOf(now))
    /\ Present(jobs[1].Weekday) /\ jobs[1].Weekday # Some(WeekdayOf(now))

\* C12: the weekday of every timestamp is in 0..6, so a job with weekday 7
\* is found not due at every timestamp, whatever its other fields, also on a
\* Sunday, and main never calls Run for it.
C12_WeekdaySevenNeverFires ==
    /\ WeekdayOf(now) \in 0..6
    /\ (Evaluated /\ jobs[1].Weekday = Some(7)) => (~due /\ pc # "run")

\* C12 witness: a job whose only time field is weekday 7 has been evaluated
\* on a Sunday and found not due.
C12_Witness ==
    /\ Evaluated /\ ~due /\ pc = "eval"
    /\ jobs[1].Weekday = Some(7) /\ WeekdayOf(now) = 0
    /\ jobs[1].Minute = Nil /\ jobs[1].Hour = Nil /\ jobs[1].Day = Nil

-----------------------------------------------------------------------------
(* The sleep specification: no jobs, started at any second of a range.      *)

WaitFrom == Noon - SecondsPerMinute

WaitInit == \E t \in WaitFrom..(WaitFrom + WaitRange) : InitWith(<<>>, t)

WaitNext ==
    \/ Fix
    \/ LoopIsItTime
    \/ WaitUntilNextMinute
    \/ Advance(LastInstant)
    \/ Wake

WaitSpec == WaitInit /\ [][WaitNext]_vars

\* C8: the sleep WaitUntilNextMinute starts lasts from now to the next whole
\* minute: 60 - ss seconds at hh:mm:ss (23 at 12:00:37), more than 0 and at
\* most 60, and it ends on a whole minute.
C8_SleepsToNextMinute ==
    [][(pc = "wait" /\ pc' = "sleep")
         => LET delay == wakeAt' - now
            IN /\ delay = 60 - (now % 60)
               /\ delay > 0 /\ delay <= 60
               /\ wakeAt' % 60 = 0
               /\ wakeAt' > now
               /\ (now = Noon + 37 => delay = 23)]_vars

\* C8 witness: at 12:00:37 the scheduling thread sleeps until 12:01:00.
C8_Witness ==
    pc = "sleep" /\ now = Noon + 37 /\ wakeAt = Noon + 60

-----------------------------------------------------------------------------
(* The day specification: the readme's lock example, one lock-enabled job   *)
(* due at minute 0 whose command always runs 90 minutes, from 00:00:00 to   *)
(* the last tick of the day.                                                *)

HourlyJob == CronJob("cmd", TRUE, Nil, Some(0), Nil, Nil, Nil)

HourlyRunSecs == HourlyRunMinutes * SecondsPerMinute

LastTick == SecondsPerDay - SecondsPerMinute

DayInit == InitWith(<<HourlyJob>>, 0)

DayNext ==
    \/ Fix
    \/ LoopIsItTime
    \/ Run
    \/ RunCritical
    \/ RunUnlock
    \/ WaitUntilNextMinute
    \/ Wake
    \/ Advance(LastTick)
    \/ \E e \in execs : innerRun(e, Some(HourlyRunSecs))
    \/ \E e \in execs, err \in BOOLEAN : CombinedOutput(e, err)
    \/ \E e \in execs : DeferLock(e)
    \/ \E e \in execs : DeferReset(e)

DaySpec == DayInit /\ [][DayNext]_vars

\* The scheduling thread has finished the pass of the minute now is in.
PassDone == pc = "wait" \/ (pc = "sleep" /\ now < wakeAt)

\* C9: the hourly job that runs 90 minutes starts at every second hour and
\* at no other time, so after the last tick of the day it has started 12
\* times.
C9_TwelveStartsADay ==
    /\ \A e \in execs : e.startedAt % (2 * SecondsPerHour) = 0
    /\ PassDone => starts[1] = (now \div (2 * SecondsPerHour)) + 1
    /\ (pc = "sleep" /\ now = LastTick) => starts[1] = 12

\* C9 witness: the last tick of the day is over and the job has started 12
\* times.
C9_Witness ==
    pc = "sleep" /\ now = LastTick /\ wakeAt = SecondsPerDay /\ starts[1] = 12

-----------------------------------------------------------------------------
(* Failures and the scheduler loop *)

\* The goroutines this step starts.
Started == {f \in execs' \ execs : f.pc = "start"}

\* This step is the return of cmd.CombinedOutput() in goroutine e.
Ends(e) == e \in execs /\ e.pc = "output" /\ e \notin execs'

\* C11: there is no retry.  A goroutine is started only by Run, for the job
\* the scheduling thread is at and has just found due; the end of an
\* execution, failed or not, starts nothing and leaves the scheduling thread,
\* the flags and the other goroutines as they are, and what it leaves behind
\* does not depend on the error.
C11_NoRetry ==
    [][/\ \A f \in Started :
              /\ pc \in {"run", "crit"} /\ due
              /\ f = NewExec(idx, now)
              /\ starts'[idx] = starts[idx] + 1
       /\ \A e \in execs : Ends(e) =>
              /\ Started = {}
              /\ UNCHANGED <<jobs, now, alive, pc, idx, due, wakeAt, x, m, starts>>
              /\ execs' = IF jobs[e.job].Lock
                          THEN (execs \ {e}) \cup {[e EXCEPT !.pc = "defer"]}
                          ELSE execs \ {e}]_vars

\* C11 witness: the only execution of a lock-enabled job was killed at its
\* deadline, a failure, one second before the next tick: nothing has been
\* started in its place and the scheduling thread is still asleep.
C11_Witness ==
    /\ pc = "sleep" /\ now = wakeAt - 1
    /\ lastEnd # Nil /\ lastEnd[1].err /\ lastEnd[1].cause = "timeout"
    /\ jobs[lastEnd[1].job].Lock
    /\ starts[lastEnd[1].job] = 1
    /\ ExecsOf(lastEnd[1].job) = {} /\ ~x[lastEnd[1].job]

\* C13, as claimed: once the scheduler loop has started the process does not
\* exit because of anything that happens during an execution.  A failure of
\* cmd.StdinPipe() in innerRun ends the process through log.Fatalw.
C13_NoExitMidLoop ==
    pc \notin {"fix", "panic"} => alive

-----------------------------------------------------------------------------
(* Ticks and the clock *)

\* The scheduling thread is in a pass over the job list.
InPass == pc \in {"eval", "run", "crit", "unlock", "wait"}

\* The clock when the pass the scheduling thread is in was entered.
TickAt == IF lagged THEN now - 1 ELSE now

SameTimeFields(j, k) ==
    /\ jobs[j].Minute = jobs[k].Minute /\ jobs[j].Hour = jobs[k].Hour
    /\ jobs[j].Day = jobs[k].Day /\ jobs[j].Weekday = jobs[k].Weekday

\* C14, as claimed: within one tick every job is evaluated against one
\* timestamp, computed on entering the tick, so that two jobs with identical
\* time fields get the same verdict in every tick: when a tick is over, two
\* lock-free jobs with identical time fields have been started equally
\* often.  IsItTime reads the clock itself, once per job, and the minute can
\* change between two calls.
C14_OneTimestampPerTick ==
    pc = "wait" =>
      \A j \in JobIds, k \in JobIds :
          (SameTimeFields(j, k) /\ ~jobs[j].Lock /\ ~jobs[k].Lock)
            => starts[j] = starts[k]

\* The wall-clock minute instant t lies in, counted from the epoch.
MinuteIndex(t) == t \div SecondsPerMinute

\* C15, the starts: no two goroutines of one job were started in the same
\* wall-clock minute.
C15_StartedOncePerMinute ==
    \A e \in execs, f \in execs :
        (e.job = f.job /\ e # f)
          => MinuteIndex(e.startedAt) # MinuteIndex(f.startedAt)

\* C15, the ticks: every clock reading of a tick, from the first IsItTime
\* call to the one WaitUntilNextMinute takes, lies in one minute; the sleep
\* ends at the start of the next minute and the next tick begins then.
C15_TickInOneMinute ==
    /\ (/\ pc \in {"eval", "run", "wait"} /\ ~(pc = "eval" /\ idx = 1)
        /\ now' # now)
          => MinuteIndex(now') = MinuteIndex(now)
    /\ (pc = "wait" /\ pc' = "sleep") => wakeAt' = NextMinute(now)
    /\ (pc = "sleep" /\ pc' = "eval") => now = wakeAt

\* C15, as claimed: every minute that begins after startup has exactly one
\* tick whose evaluations fall inside it, and a job is started at most once
\* per minute.  A startup pass that is under way when the minute changes
\* evaluates in one minute and sleeps from the next, to the minute after it.
C15_OneTickPerMinute ==
    []C15_StartedOncePerMinute /\ [][C15_TickInOneMinute]_vars

-----------------------------------------------------------------------------
(* The lock: skipped ticks and the flag *)

\* C16: Run of a lock-enabled job whose flag is set starts nothing and leaves
\* the flag set; the release of the flag starts nothing either, it removes
\* the goroutine and clears the flag; and Run at a tick that finds the flag
\* clear starts an execution and sets it.  So a lock-enabled job is started
\* only by Run at a due tick, never for a tick that was skipped.
C16_SkipNotQueued ==
    [][/\ (pc = "crit" /\ x[idx] /\ pc' # pc)
            => /\ UNCHANGED <<x, execs, starts>>
               /\ ExecsOf(idx) # {}
       /\ \A e \in execs : (e.pc = "reset" /\ e \notin execs')
            => /\ execs' = execs \ {e}
               /\ x' = [x EXCEPT ![e.job] = FALSE]
               /\ UNCHANGED <<starts, pc, idx, due>>
       /\ (pc = "crit" /\ ~x[idx] /\ pc' # pc)
            => /\ execs' = execs \cup {NewExec(idx, now)}
               /\ x' = [x EXCEPT ![idx] = TRUE]
               /\ starts'[idx] = starts[idx] + 1
       /\ \A j \in JobIds : (jobs[j].Lock /\ ExecsOf(j)' # ExecsOf(j) /\ pc' = pc)
            => Started = {}]_vars

\* C16 witness: a lock-enabled job started at 12:00 ran for 90 seconds, so
\* the 12:01 tick was skipped; nothing was started when it ended at 12:01:30,
\* and the 12:02 tick has started its second execution.
C16_Witness ==
    \E j \in JobIds :
        /\ jobs[j].Lock /\ jobs[j].Timeout = Nil
        /\ lastEnd # Nil /\ lastEnd[1].job = j /\ lastEnd[1].ran = CmdSecs
        /\ starts[j] = 2 /\ x[j]
        /\ \E e \in ExecsOf(j) : e.startedAt = Noon + 2 * SecondsPerMinute

-----------------------------------------------------------------------------
(* The failure-reporting sink *)

\* C17: an execution that ends with an error (non-zero exit, launch error,
\* deadline kill) has handed exactly one packet to the failure sink, a
\* packet about its own job, and one that ends without error has handed it
\* none.
C17_ReportedOncePerFailure ==
    lastEnd # Nil =>
      /\ lastEnd[1].err => lastEnd[1].reports = <<lastEnd[1].job>>
      /\ ~lastEnd[1].err => lastEnd[1].reports = <<>>
      /\ lastEnd[1].cause = "timeout" => Len(lastEnd[1].reports) = 1

\* C17 witness: an execution killed at its deadline has been reported once,
\* while the other job's command is still running.
C17_Witness ==
    /\ lastEnd # Nil /\ lastEnd[1].cause = "timeout"
    /\ Len(lastEnd[1].reports) = 1
    /\ \E e \in execs : e.job # lastEnd[1].job /\ e.pc = "output"

-----------------------------------------------------------------------------
(* The pass over the job list *)

\* C18, the steps: a pass begins at the first job; each job is evaluated
\* once and Run is called for it exactly if it is due; whatever Run does
\* (start, skip as already running), the pass goes on to the next job in the
\* list; and the pass ends only after the last job.
C18_PassSteps ==
    /\ (pc \in {"fix", "sleep"} /\ pc' = "eval") => idx' = 1
    /\ (pc = "eval" /\ idx <= Len(jobs) /\ <<pc, idx>>' # <<pc, idx>>)
          => /\ due' = IsItTime(jobs[idx], now)
             /\ IF due' THEN pc' = "run" /\ idx' = idx
                        ELSE pc' = "eval" /\ idx' = idx + 1
    /\ (pc = "run" /\ pc' # pc)
          => \/ pc' = "crit" /\ idx' = idx
             \/ pc' = "eval" /\ idx' = idx + 1
    /\ (pc = "crit" /\ pc' # pc) => (pc' = "unlock" /\ idx' = idx)
    /\ (pc = "unlock" /\ pc' # pc) => (pc' = "eval" /\ idx' = idx + 1)
    /\ (pc # "wait" /\ pc' = "wait") => (pc = "eval" /\ idx = Len(jobs) + 1)

\* C18, the position: in a pass the scheduling thread is at a job of the
\* list or past the last one, and nothing that jobs or executions do keeps
\* it from evaluating the job it is at.
C18_PassPosition ==
    (alive /\ InPass) =>
      /\ idx \in 1..(Len(jobs) + 1)
      /\ pc \in {"run", "crit", "unlock"} => idx <= Len(jobs)
      /\ pc = "eval" => ENABLED LoopIsItTime

\* C18: every tick evaluates every job of the list exactly once, in list
\* order; a job that is not due, is skipped as already running, or has
\* failed before does not keep the jobs after it from being evaluated and
\* started in the same tick.
C18_EveryJobInOrder ==
    []C18_PassPosition /\ [][C18_PassSteps]_vars

\* C18 witness: at the end of the 12:01 tick, the first job, lock-enabled,
\* was skipped because its execution from 12:00 is still running, and the
\* second job has been started in this tick all the same, after an earlier
\* execution of it had failed.
C18_Witness ==
    /\ pc = "wait" /\ Len(jobs) = 2 /\ idx = 3
    /\ jobs[1].Lock /\ starts[1] = 1
    /\ \E e \in ExecsOf(1) : e.startedAt <= now - SecondsPerMinute + 1
    /\ \E f \in ExecsOf(2) : f.startedAt >= now - 1
    /\ lastEnd # Nil /\ lastEnd[1].job = 2 /\ lastEnd[1].err

-----------------------------------------------------------------------------
(* The running flag *)

\* C19, the value: x is false when the job is created; for a lock-enabled
\* job it is true exactly when one goroutine Run has started has not yet
\* reset it, and false exactly when there is none; a job without lock never
\* touches it.
C19_FlagValue ==
    /\ pc = "fix" => \A j \in JobIds : ~x[j]
    /\ \A j \in JobIds :
          /\ jobs[j].Lock => /\ x[j] <=> InFlight(j) = 1
                             /\ ~x[j] <=> InFlight(j) = 0
          /\ ~jobs[j].Lock => ~x[j]

\* C19, the mutex: the scheduling thread holds m where Run reads x, and a
\* mutex that is held is held by the one thread that is between its Lock
\* and its Unlock.
C19_MutexHeld ==
    /\ pc \in {"crit", "unlock"} => m[idx] = "main"
    /\ \A j \in JobIds :
          /\ m[j] = "main" => (pc \in {"crit", "unlock"} /\ idx = j)
          /\ m[j] = "go" <=> \E e \in ExecsOf(j) : e.pc = "reset"

\* C19, the writes: x[j] changes only in a step of the thread that holds
\* m[j]: Run's critical section or the deferred reset.
C19_WrittenUnderMutex ==
    \A j \in JobIds : x'[j] # x[j] =>
        \/ m[j] = "main" /\ pc = "crit" /\ idx = j /\ x'[j]
        \/ /\ m[j] = "go" /\ ~x'[j]
           /\ \E e \in ExecsOf(j) : e.pc = "reset" /\ e \notin execs'

\* C19: for a lock-enabled job x mirrors the executions in flight in every
\* state, and it is read and written only with the job's mutex held.
C19_FlagMirrorsInFlight ==
    [](C19_FlagValue /\ C19_MutexHeld) /\ [][C19_WrittenUnderMutex]_vars

\* C19 witness: the scheduling thread holds the mutex in Run and reads x as
\* true, while the goroutine whose command has just ended waits for the
\* mutex to reset it.
C19_Witness ==
    /\ pc = "crit" /\ m[idx] = "main" /\ x[idx]
    /\ \E e \in ExecsOf(idx) : e.pc = "defer"

-----------------------------------------------------------------------------
(* The first pass *)

\* No sleep has been started yet: wakeAt is still the startup instant.
FirstPass == wakeAt \in StartTimes

\* C20, the instants: the first pass is entered at the startup instant,
\* whatever its second; every later pass is entered at the minute boundary
\* its sleep was set to end at.
C20_PassEnteredAt ==
    /\ pc = "fix" => (now = wakeAt /\ execs = {})
    /\ InPass => /\ TickAt = wakeAt
                 /\ ~FirstPass => wakeAt % SecondsPerMinute = 0
    /\ \A e \in execs : ~FirstPass \/ e.startedAt \in {wakeAt, wakeAt + 1}

\* C20, the steps: validation is followed by the first pass with no sleep
\* and no clock reading in between; a pass is followed by a sleep to a later
\* minute boundary; the next pass begins only when that sleep has elapsed.
C20_PassSteps ==
    /\ (pc = "fix" /\ pc' # pc /\ alive')
          => (pc' = "eval" /\ idx' = 1 /\ UNCHANGED <<now, wakeAt>>)
    /\ (pc = "wait" /\ pc' # pc)
          => /\ pc' = "sleep"
             /\ wakeAt' > now /\ wakeAt' % SecondsPerMinute = 0
    /\ (pc = "sleep" /\ pc' # pc)
          => (pc' = "eval" /\ idx' = 1 /\ now >= wakeAt)

\* C20: the first pass runs at startup without waiting for a minute
\* boundary, so a job due in the startup minute is started at startup, and
\* every later pass starts only after the sleep to the next minute boundary
\* has elapsed.
C20_FirstPassAtStartup ==
    []C20_PassEnteredAt /\ [][C20_PassSteps]_vars

\* C20 witness: the process started at 12:00:59; both jobs were started at
\* that second, and the scheduling thread is now in its first sleep, to
\* 12:01:00.
C20_Witness ==
    /\ pc = "sleep" /\ now = Noon + SecondsPerMinute - 1
    /\ wakeAt = Noon + SecondsPerMinute
    /\ \A j \in JobIds : starts[j] = 1
    /\ \A e \in execs : e.startedAt = now

====
